---- MODULE Spec2Model ----
(***************************************************************************)
(* Tradix ERP: SupplierQuoteStorage (quotation data access), the quotation *)
(* list's supplier resolution, and the customer routes' error handling.    *)
(*                                                                         *)
(* Five specifications share the variables:                                *)
(*   Spec      concurrent requests calling SupplierQuoteStorage.create,    *)
(*             update, hasReferences and delete on one relational store;   *)
(*   SpecList  SupplierQuoteStorage.list applied to quotation notes and a  *)
(*             suppliers table (both versions of list);                    *)
(*   SpecRefs  hasReferences on a store with dependent records;            *)
(*   SpecCust  POST /api/customers and PUT /api/customers/:id;             *)
(*   SpecGet   GET /api/customers on a customer directory.                 *)
(***************************************************************************)
EXTENDS Integers, Sequences, FiniteSets, TLC

(***************************************************************************)
(* Bounds of the model.                                                    *)
(***************************************************************************)
\* Number of concurrent requests against the quotation store.
NumProcs == 2
\* Longest data.items array a create request carries.
MaxItems == 2

Procs == 1..NumProcs

\* SQL NULL / JS null / undefined for an id.
NoId == 0
\* The quotation that exists before the first request (with one line item).
SeedQuote == 1

VARIABLES
    \* ---- the relational store (committed rows) ----
    quotations,           \* function: quotation id -> row [status, touched]
    quotationItems,       \* set of rows [id, quotationId]
    salesOrders,          \* set of rows [id, quotationId]
    customerAcceptances,  \* set of rows [id, quotationId]
    purchaseOrders,       \* set of rows [id, quotationId]
    \* ---- the requests ----
    pc,                   \* request -> position in its SupplierQuoteStorage call
    req,                  \* request -> arguments and locals of the call
    \* ---- SupplierQuoteStorage.list ----
    listIn,               \* [notes, suppliers, customerRow] the list call reads
    listOut,              \* the processed row of each version, or "none"
    \* ---- customer routes ----
    http,                 \* request -> state of one POST/PUT handler run
    get                   \* state of one GET /api/customers handler run

storeVars == <<quotations, quotationItems, salesOrders, customerAcceptances,
               purchaseOrders>>
quoteVars == <<storeVars, pc, req>>
listVars == <<listIn, listOut>>
custVars == <<http, get>>
vars == <<quoteVars, listVars, custVars>>

(***************************************************************************)
(* SupplierQuoteStorage on the store                                       *)
(***************************************************************************)

\* The item payloads a create may carry: with a quotationId of its own (the
\* seed quotation's id) or without one.
CarryingItem == [sku |-> "A", quotationId |-> SeedQuote]
PlainItem == [sku |-> "A"]

\* data.items of n items: the odd ones carry a quotationId, the even ones do not.
ItemArrays ==
    { [i \in 1..n |-> IF i % 2 = 1 THEN CarryingItem ELSE PlainItem] : n \in 0..MaxItems }

\* Generated ids (uuids): the quotation a request's create inserts, and the
\* k-th line item that create inserts.
NewQuoteId(p) == SeedQuote + p
NewItemId(quote, k) == quote * (MaxItems + 1) + k

\* Object spread { ...a, ...b }: b's fields override a's.
Spread(a, b) ==
    [f \in DOMAIN a \cup DOMAIN b |-> IF f \in DOMAIN b THEN b[f] ELSE a[f]]

NoErr == [kind |-> "none", at |-> "none", cause |-> "none", message |-> <<>>]
NoRet == [kind |-> "none", id |-> NoId, flag |-> FALSE]

\* The three existence queries of hasReferences and their result arrays'
\* lengths (limit 1).
RefTables == {"salesOrders", "customerAcceptances", "purchaseOrders"}
NoRefs == [t \in RefTables |-> 0]

IdleReq ==
    [op |-> "none", id |-> NoId, hasItems |-> FALSE, items |-> <<>>,
     quote |-> NoId, k |-> 0, txItems |-> {}, txQuote |-> FALSE,
     pending |-> {}, refs |-> NoRefs, ret |-> NoRet, err |-> NoErr]

\* Rows of quotation_items a statement on the committed store sees for a quotation.
ItemsOf(q) == { it \in quotationItems : it.quotationId = q }

\* getItems(quoteId): select from quotationItems where quotationId = quoteId.
getItems(quoteId) == ItemsOf(quoteId)

\* getById(id): result[0] of the select ... where quotations.id = id limit 1;
\* undefined when no row matches.
getById(id) ==
    IF id \in DOMAIN quotations
    THEN [kind |-> "row", id |-> id, flag |-> quotations[id].touched]
    ELSE [kind |-> "undefined", id |-> NoId, flag |-> FALSE]

\* A transaction of another request holds the row lock of quotation q
\* (its delete of the row is not committed yet).
QuoteLockedByOther(p, q) ==
    \E o \in Procs \ {p} : req[o].txQuote /\ req[o].id = q

\* A transaction of another request holds row locks on some of these items.
ItemsLockedByOther(p, its) ==
    \E o \in Procs \ {p} : req[o].txItems \cap { it.id : it \in its } # {}

\* Mutant of FkParentMissing: no foreign key on quotation_items.quotation_id.
FkNotEnforced(q) == FALSE

\* The foreign key quotation_items.quotation_id -> quotations.id, checked when
\* a line item is inserted.
FkParentMissing(q) == q \notin DOMAIN quotations

FkParentExists(q) == ~FkParentMissing(q)

\* The same foreign key, checked when a quotation row is deleted: rows still
\* referencing it (other than those the transaction itself deleted) reject it.
FkChildrenRemain(q, deleted) ==
    \E it \in ItemsOf(q) : it.id \notin deleted

\* A thrown error leaves the call: create and delete let the store's error
\* through, update wraps it.
Raw(at, cause) ==
    [kind |-> "raw", at |-> at, cause |-> cause, message |-> <<cause>>]

Fail(p, e) ==
    /\ pc' = [pc EXCEPT ![p] = "failed"]
    /\ req' = [req EXCEPT ![p].err = e, ![p].txItems = {}, ![p].txQuote = FALSE]

\* ---- a request arrives ---------------------------------------------------

\* The quotation ids a caller can pass: those generated so far.
KnownIds == {SeedQuote} \cup ({ req[o].quote : o \in Procs } \ {NoId})

\* Requests are numbered in their order of arrival; each runs one call.
Arrives(p) == pc[p] = "idle" /\ \A o \in Procs : o < p => pc[o] # "idle"

StartCreate(p) ==
    /\ Arrives(p)
    /\ \E present \in BOOLEAN :
       \E arr \in (IF present THEN ItemArrays ELSE {<<>>}) :
          req' = [req EXCEPT ![p].op = "create", ![p].hasItems = present,
                             ![p].items = arr]
    /\ pc' = [pc EXCEPT ![p] = "createQuote"]
    /\ UNCHANGED <<storeVars, listVars, custVars>>

StartUpdate(p) ==
    /\ Arrives(p)
    /\ \E id \in KnownIds :
          req' = [req EXCEPT ![p].op = "update", ![p].id = id]
    /\ pc' = [pc EXCEPT ![p] = "updateStmt"]
    /\ UNCHANGED <<storeVars, listVars, custVars>>

StartHasReferences(p) ==
    /\ Arrives(p)
    /\ \E id \in KnownIds :
          req' = [req EXCEPT ![p].op = "hasReferences", ![p].id = id,
                             ![p].pending = RefTables]
    /\ pc' = [pc EXCEPT ![p] = "hasRefsWait"]
    /\ UNCHANGED <<storeVars, listVars, custVars>>

StartDelete(p) ==
    /\ Arrives(p)
    /\ \E id \in KnownIds :
          req' = [req EXCEPT ![p].op = "delete", ![p].id = id]
    /\ pc' = [pc EXCEPT ![p] = "delItems"]
    /\ UNCHANGED <<storeVars, listVars, custVars>>

\* ---- create ----------------------------------------------------------------

\* const [quote] = await db.insert(quotations).values(data).returning();
CreateInsertQuote(p) ==
    /\ pc[p] = "createQuote"
    /\ quotations' = [q \in DOMAIN quotations \cup {NewQuoteId(p)} |->
                        IF q = NewQuoteId(p) THEN [status |-> "Draft", touched |-> FALSE]
                        ELSE quotations[q]]
    /\ req' = [req EXCEPT ![p].quote = NewQuoteId(p)]
    /\ pc' = [pc EXCEPT ![p] =
                IF req[p].hasItems /\ Len(req[p].items) > 0
                THEN "createItems" ELSE "createFetch"]
    /\ UNCHANGED <<quotationItems, salesOrders, customerAcceptances, purchaseOrders,
                   listVars, custVars>>

\* Mutant of ItemValues: the spread written last, { quotationId: quote.id, ...item },
\* so that a quotationId the item carries wins.
ItemValuesItemWins(item, quoteId) == Spread([quotationId |-> quoteId], item)

\* The values one loop turn inserts: { ...item, quotationId: quote.id }.
ItemValues(item, quoteId) == Spread(item, [quotationId |-> quoteId])

\* The row the store keeps for them, under a generated id.
ItemRow(values, itemId) == Spread(values, [id |-> itemId])

\* await db.insert(quotationItems).values({ ...item, quotationId: quote.id });
\* one turn of the for loop.  The insert waits while a transaction holds the
\* parent row's lock, and is rejected when the parent row is gone.
CreateInsertItem(p) ==
    /\ pc[p] = "createItems"
    /\ ~QuoteLockedByOther(p, req[p].quote)
    /\ LET k == req[p].k + 1
           row == ItemRow(ItemValues(req[p].items[k], req[p].quote),
                          NewItemId(req[p].quote, k))
       IN IF FkParentExists(row.quotationId)
          THEN /\ quotationItems' = quotationItems \cup {row}
               /\ req' = [req EXCEPT ![p].k = k]
               /\ pc' = [pc EXCEPT ![p] =
                           IF k = Len(req[p].items) THEN "createFetch" ELSE "createItems"]
          ELSE /\ Fail(p, Raw("createItems", "ForeignKeyViolation"))
               /\ UNCHANGED quotationItems
    /\ UNCHANGED <<quotations, salesOrders, customerAcceptances, purchaseOrders,
                   listVars, custVars>>

\* Mutant of CreateThrows: a failed insert is compensated by removing the
\* quotation and the items inserted so far.
CreateThrowsRollsBack(p) ==
    /\ pc[p] \in {"createQuote", "createItems", "createFetch"}
    /\ Fail(p, Raw(pc[p], "StoreError"))
    /\ quotations' = [q \in DOMAIN quotations \ {req[p].quote} |-> quotations[q]]
    /\ quotationItems' = quotationItems \ ItemsOf(req[p].quote)
    /\ UNCHANGED <<salesOrders, customerAcceptances, purchaseOrders, listVars, custVars>>

\* An insert of create is rejected by the store (connection lost, constraint,
\* bad value): the error leaves create as it is, nothing is undone.
CreateThrows(p) ==
    /\ pc[p] \in {"createQuote", "createItems", "createFetch"}
    /\ Fail(p, Raw(pc[p], "StoreError"))
    /\ UNCHANGED <<storeVars, listVars, custVars>>

\* return await this.getById(quote.id);
CreateFetch(p) ==
    /\ pc[p] = "createFetch"
    /\ req' = [req EXCEPT ![p].ret = getById(req[p].quote)]
    /\ pc' = [pc EXCEPT ![p] = "done"]
    /\ UNCHANGED <<storeVars, listVars, custVars>>

\* ---- update ----------------------------------------------------------------

\* throw new Error(`Failed to update supplier quote: ${error.message}`)
Wrapped(at, cause) ==
    [kind |-> "wrapped", at |-> at, cause |-> cause,
     message |-> <<"Failed to update supplier quote: ", cause>>]

\* await db.update(quotations).set({...updates, updatedAt}).where(eq(id));
\* waits while a transaction holds the row's lock; no row matching is no error.
UpdateStmt(p) ==
    /\ pc[p] = "updateStmt"
    /\ ~QuoteLockedByOther(p, req[p].id)
    /\ quotations' = [q \in DOMAIN quotations |->
                        IF q = req[p].id THEN [status |-> "Sent", touched |-> TRUE]
                        ELSE quotations[q]]
    /\ pc' = [pc EXCEPT ![p] = "updateFetch"]
    /\ UNCHANGED <<quotationItems, salesOrders, customerAcceptances, purchaseOrders,
                   req, listVars, custVars>>

\* return await this.getById(id);
UpdateFetch(p) ==
    /\ pc[p] = "updateFetch"
    /\ req' = [req EXCEPT ![p].ret = getById(req[p].id)]
    /\ pc' = [pc EXCEPT ![p] = "done"]
    /\ UNCHANGED <<storeVars, listVars, custVars>>

\* catch (error) { ... throw new Error(...) }: a store error inside the try.
UpdateThrows(p) ==
    /\ pc[p] \in {"updateStmt", "updateFetch"}
    /\ Fail(p, Wrapped(pc[p], "StoreError"))
    /\ UNCHANGED <<storeVars, listVars, custVars>>

\* ---- hasReferences ---------------------------------------------------------

RefTable(t) ==
    CASE t = "salesOrders" -> salesOrders
      [] t = "customerAcceptances" -> customerAcceptances
      [] t = "purchaseOrders" -> purchaseOrders

\* select id from <table> where quotationId = id limit 1: the result's length.
RefQuery(t, id) ==
    IF \E r \in RefTable(t) : r.quotationId = id THEN 1 ELSE 0

\* Mutant of HasReferencesResult: the purchase orders' result is left out.
HasReferencesResultTwoTables(refs) ==
    \/ refs["salesOrders"] > 0
    \/ refs["customerAcceptances"] > 0

\* salesOrderRefs.length > 0 || customerAcceptanceRefs.length > 0
\*   || purchaseOrderRefs.length > 0
HasReferencesResult(refs) ==
    \/ refs["salesOrders"] > 0
    \/ refs["customerAcceptances"] > 0
    \/ refs["purchaseOrders"] > 0

\* One of the three queries of Promise.all completes, in any order.
RefQueryDone(p, t) ==
    /\ pc[p] = "hasRefsWait"
    /\ t \in req[p].pending
    /\ req' = [req EXCEPT ![p].pending = @ \ {t},
                          ![p].refs[t] = RefQuery(t, req[p].id)]
    /\ UNCHANGED <<storeVars, pc, listVars, custVars>>

\* Promise.all resolves once all three have, and the result is combined.
HasReferencesReturn(p) ==
    /\ pc[p] = "hasRefsWait"
    /\ req[p].pending = {}
    /\ req' = [req EXCEPT ![p].ret = [kind |-> "bool", id |-> NoId,
                                      flag |-> HasReferencesResult(req[p].refs)]]
    /\ pc' = [pc EXCEPT ![p] = "done"]
    /\ UNCHANGED <<storeVars, listVars, custVars>>

\* One query rejects: Promise.all rejects and the error leaves hasReferences.
HasReferencesThrows(p) ==
    /\ pc[p] = "hasRefsWait"
    /\ req[p].pending # {}
    /\ Fail(p, Raw(pc[p], "StoreError"))
    /\ UNCHANGED <<storeVars, listVars, custVars>>

\* ---- delete ----------------------------------------------------------------

\* Mutant of TxDeleteItems: the statement runs on db instead of tx, outside the
\* transaction, and is committed at once.
TxDeleteItemsOutsideTx(p) ==
    /\ pc[p] = "delItems"
    /\ ~ItemsLockedByOther(p, ItemsOf(req[p].id))
    /\ quotationItems' = quotationItems \ ItemsOf(req[p].id)
    /\ pc' = [pc EXCEPT ![p] = "delQuote"]
    /\ UNCHANGED <<quotations, salesOrders, customerAcceptances, purchaseOrders,
                   req, listVars, custVars>>

\* await tx.delete(quotationItems).where(eq(quotationItems.quotationId, id));
\* inside db.transaction: the rows are deleted in the transaction only.
TxDeleteItems(p) ==
    /\ pc[p] = "delItems"
    /\ ~ItemsLockedByOther(p, ItemsOf(req[p].id))
    /\ req' = [req EXCEPT ![p].txItems = { it.id : it \in ItemsOf(req[p].id) }]
    /\ pc' = [pc EXCEPT ![p] = "delQuote"]
    /\ UNCHANGED <<storeVars, listVars, custVars>>

\* await tx.delete(quotations).where(eq(quotations.id, id)); inside the same
\* transaction.  A line item inserted since the first statement rejects it.
TxDeleteQuote(p) ==
    /\ pc[p] = "delQuote"
    /\ ~QuoteLockedByOther(p, req[p].id)
    /\ IF FkChildrenRemain(req[p].id, req[p].txItems)
       THEN Fail(p, Raw("delQuote", "ForeignKeyViolation"))
       ELSE /\ req' = [req EXCEPT ![p].txQuote = (req[p].id \in DOMAIN quotations)]
            /\ pc' = [pc EXCEPT ![p] = "delCommit"]
    /\ UNCHANGED <<storeVars, listVars, custVars>>

\* The callback of db.transaction returns: both deletes are committed at once;
\* return { message: "Supplier quote deleted successfully" }.
TxCommit(p) ==
    /\ pc[p] = "delCommit"
    /\ quotations' = [q \in DOMAIN quotations \ (IF req[p].txQuote THEN {req[p].id} ELSE {})
                        |-> quotations[q]]
    /\ quotationItems' = { it \in quotationItems : it.id \notin req[p].txItems }
    /\ req' = [req EXCEPT ![p].txItems = {}, ![p].txQuote = FALSE,
                          ![p].ret = [kind |-> "message", id |-> NoId, flag |-> TRUE]]
    /\ pc' = [pc EXCEPT ![p] = "done"]
    /\ UNCHANGED <<salesOrders, customerAcceptances, purchaseOrders, listVars, custVars>>

\* A statement or the commit fails: db.transaction rolls back and rethrows.
DeleteThrows(p) ==
    /\ pc[p] \in {"delItems", "delQuote", "delCommit"}
    /\ Fail(p, Raw(pc[p], "StoreError"))
    /\ UNCHANGED <<storeVars, listVars, custVars>>

\* ---- the specification ------------------------------------------------------

SeedRefs == { {}, { [id |-> 1, quotationId |-> SeedQuote] } }

\* No list call and no handler run: the values these hold outside their specification.
ListIdle == [version |-> "none"]

\* A handler of the customer routes before its request arrives.
HttpNew ==
    [pc |-> "idle", method |-> "none", body |-> [name |-> "absent", email |-> "absent"],
     storeCalls |-> 0, error |-> [kind |-> "none", message |-> <<>>, issues |-> <<>>],
     sent |-> <<>>]

\* The GET /api/customers handler before its request arrives.
GetIdle == [pc |-> "idle"]

Init ==
    /\ quotations = [q \in {SeedQuote} |-> [status |-> "Draft", touched |-> FALSE]]
    /\ quotationItems = { ItemRow(ItemValues(PlainItem, SeedQuote), NewItemId(SeedQuote, 1)) }
    /\ salesOrders \in SeedRefs
    /\ customerAcceptances \in SeedRefs
    /\ purchaseOrders \in SeedRefs
    /\ pc = [p \in Procs |-> "idle"]
    /\ req = [p \in Procs |-> IdleReq]
    /\ listIn = ListIdle
    /\ listOut = ListIdle
    /\ http = [h \in Procs |-> HttpNew]
    /\ get = GetIdle

Next ==
    \E p \in Procs :
        \/ StartCreate(p)
        \/ StartUpdate(p)
        \/ StartDelete(p)
        \/ CreateInsertQuote(p)
        \/ CreateInsertItem(p)
        \/ CreateThrows(p)
        \/ CreateFetch(p)
        \/ UpdateStmt(p)
        \/ UpdateFetch(p)
        \/ UpdateThrows(p)
        \/ TxDeleteItems(p)
        \/ TxDeleteQuote(p)
        \/ TxCommit(p)
        \/ DeleteThrows(p)

Spec == Init /\ [][Next]_vars

\* Requests that only ask hasReferences, over every content of the three tables.
NextRefs ==
    \E p \in Procs :
        \/ StartHasReferences(p)
        \/ \E t \in RefTables : RefQueryDone(p, t)
        \/ HasReferencesReturn(p)
        \/ HasReferencesThrows(p)

SpecRefs == Init /\ [][NextRefs]_vars

(***************************************************************************)
(* Strings, as sequences of one-character strings                          *)
(***************************************************************************)

\* JS null / undefined where a string is expected.
Null == <<"null">>

UpperCase == <<"A","B","C","D","E","F","G","H","I","J","K","L","M",
               "N","O","P","Q","R","S","T","U","V","W","X","Y","Z">>
LowerCase == <<"a","b","c","d","e","f","g","h","i","j","k","l","m",
               "n","o","p","q","r","s","t","u","v","w","x","y","z">>

LowerChar(c) ==
    IF \E i \in 1..Len(UpperCase) : UpperCase[i] = c
    THEN LowerCase[CHOOSE i \in 1..Len(UpperCase) : UpperCase[i] = c]
    ELSE c

\* String.prototype.toLowerCase
toLowerCase(s) == [i \in 1..Len(s) |-> LowerChar(s[i])]

\* String.prototype.includes: needle occurs in hay (the empty needle always does).
includes(hay, needle) ==
    \E i \in 0..(Len(hay) - Len(needle)) :
        SubSeq(hay, i + 1, i + Len(needle)) = needle

IsSpace(c) == c = " "

\* String.prototype.trim
trim(s) ==
    IF \A i \in 1..Len(s) : IsSpace(s[i]) THEN <<>>
    ELSE LET first == CHOOSE i \in 1..Len(s) :
                          ~IsSpace(s[i]) /\ \A j \in 1..(i - 1) : IsSpace(s[j])
             last == CHOOSE i \in 1..Len(s) :
                          ~IsSpace(s[i]) /\ \A j \in (i + 1)..Len(s) : IsSpace(s[j])
         IN SubSeq(s, first, last)

\* String.prototype.split(','): the segments between the commas.
RECURSIVE split(_)
split(s) ==
    IF \A i \in 1..Len(s) : s[i] # ","
    THEN <<s>>
    ELSE LET c == CHOOSE i \in 1..Len(s) : s[i] = "," /\ \A j \in 1..(i - 1) : s[j] # ","
         IN <<SubSeq(s, 1, c - 1)>> \o split(SubSeq(s, c + 1, Len(s)))

\* The end of the longest run [^,]+ starting at position g (g - 1 when empty).
RECURSIVE RunEnd(_, _)
RunEnd(s, g) ==
    IF g <= Len(s) /\ s[g] # "," THEN RunEnd(s, g + 1) ELSE g - 1

\* The end of (?:, [^,]+)* after position e: as many ", name" as follow.
RECURSIVE GroupEnd(_, _)
GroupEnd(s, e) ==
    IF /\ e + 3 <= Len(s)
       /\ s[e + 1] = ","
       /\ s[e + 2] = " "
       /\ s[e + 3] # ","
    THEN GroupEnd(s, RunEnd(s, e + 3))
    ELSE e

Keyword == <<"s","u","p","p","l","i","e","r">>

\* ": " followed by one character that is no comma, at position j.
ColonThenName(s, j) ==
    /\ j + 2 <= Len(s)
    /\ s[j] = ":"
    /\ s[j + 1] = " "
    /\ s[j + 2] # ","

\* Where the capture group of /suppliers?: ([^,]+(?:, [^,]+)*)/i starts when
\* the pattern matches at position i; 0 when it does not match there.
GroupStartAt(s, i) ==
    LET j == i + Len(Keyword)
    IN IF i + Len(Keyword) - 1 > Len(s)
          \/ toLowerCase(SubSeq(s, i, j - 1)) # Keyword
       THEN 0
       ELSE IF j <= Len(s) /\ LowerChar(s[j]) = "s" /\ ColonThenName(s, j + 1)
            THEN j + 3
            ELSE IF ColonThenName(s, j) THEN j + 2 ELSE 0

\* notes.match(/suppliers?: ([^,]+(?:, [^,]+)*)/i): the capture group of the
\* leftmost match, as <<group>>, or <<>> when there is no match (null).
SupplierMatch(notes) ==
    IF \E i \in 1..Len(notes) : GroupStartAt(notes, i) # 0
    THEN LET i == CHOOSE k \in 1..Len(notes) :
                     /\ GroupStartAt(notes, k) # 0
                     /\ \A m \in 1..(k - 1) : GroupStartAt(notes, m) = 0
             g == GroupStartAt(notes, i)
         IN <<SubSeq(notes, g, GroupEnd(notes, RunEnd(notes, g)))>>
    ELSE <<>>

(***************************************************************************)
(* SupplierQuoteStorage.list: the processing of one result row             *)
(***************************************************************************)

UnknownSupplier ==
    <<"U","n","k","n","o","w","n"," ","S","u","p","p","l","i","e","r">>

\* a || b on strings: a unless it is null or empty.
OrElse(a, b) == IF a = Null \/ a = <<>> THEN b ELSE a

NullSupplier == [isNull |-> TRUE, id |-> NoId, name |-> Null]

\* The find callback of the note-derived list:
\*   s.name?.toLowerCase().includes(supplierName.toLowerCase()) ||
\*   supplierName.toLowerCase().includes(s.name?.toLowerCase() || '')
NameMatches(s, supplierName) ==
    \/ /\ s.name # Null
       /\ includes(toLowerCase(s.name), toLowerCase(supplierName))
    \/ includes(toLowerCase(supplierName),
                OrElse(IF s.name = Null THEN Null ELSE toLowerCase(s.name), <<>>))

\* Array.prototype.find: the first element in array order, or <<>>.
FindSupplier(allSuppliers, supplierName) ==
    IF \E i \in 1..Len(allSuppliers) : NameMatches(allSuppliers[i], supplierName)
    THEN LET i == CHOOSE k \in 1..Len(allSuppliers) :
                     /\ NameMatches(allSuppliers[k], supplierName)
                     /\ \A m \in 1..(k - 1) : ~NameMatches(allSuppliers[m], supplierName)
         IN <<allSuppliers[i]>>
    ELSE <<>>

\* part_000, list: supplier and supplierName of one row, from its notes and
\* the suppliers table.
NoteDerivedRow(notes, allSuppliers) ==
    IF notes = Null \/ notes = <<>> \/ SupplierMatch(notes) = <<>>
    THEN [supplier |-> NullSupplier, supplierName |-> UnknownSupplier]
    ELSE LET supplierNames == split(SupplierMatch(notes)[1])
             first == trim(supplierNames[1])
             matchingSupplier == FindSupplier(allSuppliers, first)
         IN IF matchingSupplier # <<>>
            THEN [supplier |-> [isNull |-> FALSE, id |-> matchingSupplier[1].id,
                                name |-> matchingSupplier[1].name],
                  supplierName |-> matchingSupplier[1].name]
            ELSE [supplier |-> [isNull |-> FALSE, id |-> NoId, name |-> first],
                  supplierName |-> first]

\* row.supplier.name || row.supplier.customerName || row.supplier.companyName
\*   || row.supplier.fullName
ResolvedName(r) ==
    OrElse(r.name, OrElse(r.customerName, OrElse(r.companyName, r.fullName)))

\* part_001, list: supplier and supplierName of one row, from the customer row
\* joined on quotations.customerId (<<>> when the left join found none).
JoinDerivedRow(joined) ==
    LET supplier == IF joined = <<>> THEN NullSupplier
                    ELSE [isNull |-> FALSE, id |-> joined[1].id,
                          name |-> ResolvedName(joined[1])]
    IN [supplier |-> supplier,
        supplierName |-> OrElse(supplier.name, UnknownSupplier)]

\* ---- inputs -----------------------------------------------------------------

\* Longest text after the keyword in a quotation's notes.
MaxTail == 3
\* Most rows in the suppliers table.
MaxSuppliers == 2

TailChars == {"a", "A", "b", " ", ","}

RECURSIVE StringsUpTo(_, _)
StringsUpTo(chars, n) ==
    IF n = 0 THEN {<<>>}
    ELSE LET shorter == StringsUpTo(chars, n - 1)
         IN shorter \cup { Append(s, c) : s \in shorter, c \in chars }

NotePrefixes ==
    { <<"s","u","p","p","l","i","e","r",":"," ">>,
      <<"S","u","p","p","l","i","e","r","S",":"," ">>,
      <<"x"," ","s","u","p","p","l","i","e","r","s",":"," ">>,
      <<"s","u","p","p","l","i","e","r",":">>,
      <<"v","e","n","d","o","r",":"," ">> }

NotesValues ==
    {Null, <<>>} \cup { pre \o tail : pre \in NotePrefixes, tail \in StringsUpTo(TailChars, MaxTail) }

SupplierNameValues == { Null, <<>>, <<"a">>, <<"A"," ","b">> }

SuppliersTables ==
    UNION { [1..n -> SupplierNameValues] : n \in 0..MaxSuppliers }

TableRows(names) == [i \in 1..Len(names) |-> [id |-> i, name |-> names[i]]]

CustomerNameValues == { Null, <<>>, <<"a">> }

JoinedRows ==
    {<<>>} \cup { <<[id |-> 1, name |-> n1, customerName |-> n2,
                     companyName |-> n3, fullName |-> n4]>> :
                    n1 \in CustomerNameValues, n2 \in CustomerNameValues,
                    n3 \in CustomerNameValues, n4 \in CustomerNameValues }

\* ---- the specification ------------------------------------------------------

ListNoteDerived ==
    /\ listIn # ListIdle
    /\ listIn.version = "notes"
    /\ listOut = ListIdle
    /\ listOut' = NoteDerivedRow(listIn.notes, listIn.suppliers)
    /\ UNCHANGED <<listIn, quoteVars, custVars>>

ListJoinDerived ==
    /\ listIn # ListIdle
    /\ listIn.version = "join"
    /\ listOut = ListIdle
    /\ listOut' = JoinDerivedRow(listIn.joined)
    /\ UNCHANGED <<listIn, quoteVars, custVars>>

InitList ==
    /\ quotations = <<>>
    /\ quotationItems = {}
    /\ salesOrders = {}
    /\ customerAcceptances = {}
    /\ purchaseOrders = {}
    /\ pc = [p \in Procs |-> "idle"]
    /\ req = [p \in Procs |-> IdleReq]
    /\ listIn \in { [version |-> "notes", notes |-> n, suppliers |-> TableRows(t),
                     joined |-> <<>>] : n \in NotesValues, t \in SuppliersTables }
                  \cup
                  { [version |-> "join", notes |-> Null, suppliers |-> <<>>,
                     joined |-> j] : j \in JoinedRows }
    /\ listOut = ListIdle
    /\ http = [h \in Procs |-> HttpNew]
    /\ get = GetIdle

NextList == ListNoteDerived \/ ListJoinDerived

SpecList == InitList /\ [][NextList]_vars

(***************************************************************************)
(* Customer routes: POST /api/customers and PUT /api/customers/:id         *)
(***************************************************************************)

AlreadyExists == <<"a","l","r","e","a","d","y"," ","e","x","i","s","t","s">>

\* The fields of a request body: absent, of the schema's type, or of another type.
BodyValues ==
    { [name |-> n, email |-> e] : n \in {"absent", "ok", "bad"}, e \in {"absent", "ok"} }

\* insertCustomerSchema: name is required; every field given must have its type.
RequiredFields == {"name"}

\* The issues of insertCustomerSchema.parse(body) (partial: of
\* insertCustomerSchema.partial().parse(body)), in field order; parse throws
\* a ZodError carrying them when there is one.
SchemaIssues(body, partial) ==
    LET bad(f) == \/ body[f] = "bad"
                  \/ (~partial /\ f \in RequiredFields /\ body[f] = "absent")
    IN (IF bad("name") THEN <<"name">> ELSE <<>>)
       \o (IF bad("email") THEN <<"email">> ELSE <<>>)

\* What storage.createCustomer / storage.updateCustomer may do: return the
\* customer, throw an Error with some message, or throw a value that is no Error.
StoreOutcomes ==
    { [kind |-> "ok", message |-> <<>>], [kind |-> "thrown", message |-> <<>>] }
    \cup { [kind |-> "Error", message |-> m] :
             m \in { <<"C","u","s","t","o","m","e","r"," ","w","i","t","h"," ","t","h","i","s"," ","e","m","a","i","l"," ","a","l","r","e","a","d","y"," ","e","x","i","s","t","s">>,
                     <<"a","l","r","e","a","d","y"," ","e","x","i","s","t","s">>,
                     <<"A","l","r","e","a","d","y"," ","E","x","i","s","t","s">>,
                     <<"a","l","r","e","a","d","y"," ","e","x","i","s","t">>,
                     <<"c","o","n","n","e","c","t","i","o","n"," ","r","e","f","u","s","e","d">> } }

\* Mutant of IsDuplicate: the message is compared whole instead of searched.
IsDuplicateExact(error) ==
    error.kind = "Error" /\ error.message = AlreadyExists

\* error instanceof Error && error.message.includes("already exists")
IsDuplicate(error) ==
    error.kind = "Error" /\ includes(error.message, AlreadyExists)

\* The responses the catch block sends for an error, in order.
CatchResponses(error) ==
    IF error.kind = "ZodError"
    THEN <<[status |-> 400, errors |-> error.issues]>>
    ELSE IF IsDuplicate(error)
         THEN <<[status |-> 409, errors |-> <<>>]>>
         ELSE <<[status |-> 500, errors |-> <<>>]>>

\* A request reaches app.post("/api/customers") or app.put("/api/customers/:id").
HttpArrives(h) ==
    /\ http[h].pc = "idle"
    /\ \A o \in Procs : o < h => http[o].pc # "idle"
    /\ \E m \in {"POST", "PUT"}, b \in BodyValues :
          http' = [http EXCEPT ![h].pc = "parse", ![h].method = m, ![h].body = b]
    /\ UNCHANGED <<quoteVars, listVars, get>>

\* insertCustomerSchema.parse(req.body) or insertCustomerSchema.partial().parse(req.body)
HttpParse(h) ==
    /\ http[h].pc = "parse"
    /\ LET issues == SchemaIssues(http[h].body, http[h].method = "PUT")
       IN IF issues = <<>>
          THEN http' = [http EXCEPT ![h].pc = "store"]
          ELSE http' = [http EXCEPT ![h].pc = "catch",
                           ![h].error = [kind |-> "ZodError", message |-> <<>>,
                                         issues |-> issues]]
    /\ UNCHANGED <<quoteVars, listVars, get>>

\* await storage.createCustomer(customerData) or
\* await storage.updateCustomer(req.params.id, customerData)
HttpStore(h) ==
    /\ http[h].pc = "store"
    /\ \E out \in StoreOutcomes :
          http' = [http EXCEPT
                      ![h].storeCalls = @ + 1,
                      ![h].pc = IF out.kind = "ok" THEN "respond" ELSE "catch",
                      ![h].error = IF out.kind = "ok" THEN @
                                   ELSE [kind |-> out.kind, message |-> out.message,
                                         issues |-> <<>>]]
    /\ UNCHANGED <<quoteVars, listVars, get>>

\* res.status(201).json(customer) in POST; res.json(customer), that is 200, in PUT.
HttpRespond(h) ==
    /\ http[h].pc = "respond"
    /\ http' = [http EXCEPT
                   ![h].pc = "done",
                   ![h].sent = Append(@, [status |-> IF http[h].method = "POST"
                                                     THEN 201 ELSE 200,
                                          errors |-> <<>>])]
    /\ UNCHANGED <<quoteVars, listVars, get>>

\* catch (error) { ... }
HttpCatch(h) ==
    /\ http[h].pc = "catch"
    /\ http' = [http EXCEPT ![h].pc = "done",
                            ![h].sent = @ \o CatchResponses(http[h].error)]
    /\ UNCHANGED <<quoteVars, listVars, get>>

InitCust ==
    /\ quotations = <<>>
    /\ quotationItems = {}
    /\ salesOrders = {}
    /\ customerAcceptances = {}
    /\ purchaseOrders = {}
    /\ pc = [p \in Procs |-> "idle"]
    /\ req = [p \in Procs |-> IdleReq]
    /\ listIn = ListIdle
    /\ listOut = ListIdle
    /\ http = [h \in Procs |-> HttpNew]
    /\ get = GetIdle

NextCust ==
    \E h \in Procs :
        \/ HttpArrives(h)
        \/ HttpParse(h)
        \/ HttpStore(h)
        \/ HttpRespond(h)
        \/ HttpCatch(h)

SpecCust == InitCust /\ [][NextCust]_vars

\* C10: POST and PUT classify the outcome in this order: a payload failing
\* the schema gets 400 with a non-empty error list and no store call;
\* otherwise a store Error whose message contains "already exists" gets 409;
\* any other failure gets 500; success gets 201 (POST) or 200 (PUT).  One
\* status is sent per request.
C10_StatusClassification ==
    \A h \in Procs :
        http[h].pc = "done"
           => /\ Len(http[h].sent) = 1
              /\ LET r == http[h].sent[1]
                     e == http[h].error
                 IN IF SchemaIssues(http[h].body, http[h].method = "PUT") # <<>>
                    THEN r.status = 400 /\ r.errors # <<>> /\ http[h].storeCalls = 0
                    ELSE /\ http[h].storeCalls = 1
                         /\ IF e.kind = "Error" /\ includes(e.message, AlreadyExists)
                            THEN r.status = 409
                            ELSE IF e.kind # "none"
                                 THEN r.status = 500
                                 ELSE r.status = IF http[h].method = "POST"
                                                 THEN 201 ELSE 200

\* A POST answered 409 on a store error that mentions "already exists" inside
\* a longer message, and a PUT answered 400.
C10_Witness ==
    \E h \in Procs, g \in Procs :
        /\ http[h].pc = "done"
        /\ http[h].method = "POST"
        /\ http[h].sent = <<[status |-> 409, errors |-> <<>>]>>
        /\ http[h].error.message # AlreadyExists
        /\ http[g].pc = "done"
        /\ http[g].method = "PUT"
        /\ Len(http[g].sent) = 1
        /\ http[g].sent[1].status = 400

(***************************************************************************)
(* GET /api/customers: pagination and the two query paths                  *)
(***************************************************************************)

\* Largest customer directory the requests are answered from.
MaxCustomers == 3

\* const limit = parseInt(req.query.limit as string) || 50;
DefaultLimit == 50
\* const offset = parseInt(req.query.offset as string) || 0;
DefaultOffset == 0

\* ---- parseInt and || --------------------------------------------------------

NaN == [nan |-> TRUE, value |-> 0]

Number(n) == [nan |-> FALSE, value |-> n]

RadixDigits == <<"0","1","2","3","4","5","6","7","8","9","a","b","c","d","e","f">>

\* The value of character c as a digit of the radix, -1 when it is none.
DigitOf(c, radix) ==
    LET l == LowerChar(c)
    IN IF \E i \in 1..radix : RadixDigits[i] = l
       THEN (CHOOSE i \in 1..radix : RadixDigits[i] = l) - 1
       ELSE -1

\* String with its leading white space removed (parseInt's first step).
TrimStart(s) ==
    IF \A i \in 1..Len(s) : IsSpace(s[i]) THEN <<>>
    ELSE LET first == CHOOSE i \in 1..Len(s) :
                          ~IsSpace(s[i]) /\ \A j \in 1..(i - 1) : IsSpace(s[j])
         IN SubSeq(s, first, Len(s))

\* Length of the longest prefix of s made of digits of the radix.
DigitRun(s, radix) ==
    CHOOSE n \in 0..Len(s) :
        /\ \A i \in 1..n : DigitOf(s[i], radix) >= 0
        /\ n = Len(s) \/ DigitOf(s[n + 1], radix) < 0

RECURSIVE DigitsValue(_, _)
DigitsValue(s, radix) ==
    IF s = <<>> THEN 0
    ELSE DigitsValue(SubSeq(s, 1, Len(s) - 1), radix) * radix
            + DigitOf(s[Len(s)], radix)

\* parseInt(string) without a radix: leading white space and a sign are
\* skipped, a 0x prefix selects radix 16, the longest run of digits is read and
\* what follows it is ignored; no digit at all (and undefined) gives NaN.
parseInt(string) ==
    IF string = Null THEN NaN
    ELSE LET t == TrimStart(string)
             signed == t # <<>> /\ t[1] \in {"-", "+"}
             negative == t # <<>> /\ t[1] = "-"
             u == IF signed THEN Tail(t) ELSE t
             hex == Len(u) >= 2 /\ u[1] = "0" /\ u[2] \in {"x", "X"}
             radix == IF hex THEN 16 ELSE 10
             v == IF hex THEN SubSeq(u, 3, Len(u)) ELSE u
             n == DigitRun(v, radix)
         IN IF n = 0 THEN NaN
            ELSE Number((IF negative THEN -1 ELSE 1)
                           * DigitsValue(SubSeq(v, 1, n), radix))

\* number || fallback: NaN and 0 are falsy.
OrNumber(parsed, fallback) ==
    IF parsed.nan \/ parsed.value = 0 THEN fallback ELSE parsed.value

\* Math.floor(a / b) and Math.ceil(a / b) for integers a and b # 0.
MathFloor(a, b) == IF b > 0 THEN a \div b ELSE (0 - a) \div (0 - b)

MathCeil(a, b) == 0 - MathFloor(0 - a, b)

\* const page = Math.floor(offset / limit) + 1;
Page(offset, limit) == MathFloor(offset, limit) + 1

\* Mutant of Pages: the quotient rounded down.
PagesRoundedDown(totalCount, limit) == MathFloor(totalCount, limit)

\* pages: Math.ceil(totalCount / limit)
Pages(totalCount, limit) == MathCeil(totalCount, limit)

\* ---- the query and the filters object ---------------------------------------

\* JS truthiness of a query string: undefined and "" are falsy.
Truthy(v) == v # Null /\ v # <<>>

FilterKeys == {"customerType", "name", "email"}

\* const filters = { customerType: req.query.customerType, ..., name, email },
\* then every key whose value is undefined is deleted.
Filters(query) == [k \in {f \in FilterKeys : query[f] # Null} |-> query[k]]

\* filters.<key>: undefined when the key was deleted.
Field(filters, key) == IF key \in DOMAIN filters THEN filters[key] ELSE Null

\* Mutant of UsesLegacySearch: both name and email are required.
UsesLegacySearchBoth(filters) ==
    Truthy(Field(filters, "name")) /\ Truthy(Field(filters, "email"))

\* if (filters.name || filters.email)
UsesLegacySearch(filters) ==
    Truthy(Field(filters, "name")) \/ Truthy(Field(filters, "email"))

\* ---- the customer storage ----------------------------------------------------

CustomerKinds ==
    { [name |-> <<"A","l">>, email |-> <<"a","@">>, customerType |-> <<"R">>],
      [name |-> <<"B","o">>, email |-> <<"b","@">>, customerType |-> <<"W">>] }

RECURSIVE RowsUpTo(_)
RowsUpTo(n) ==
    IF n = 0 THEN {<<>>}
    ELSE LET shorter == RowsUpTo(n - 1)
         IN shorter \cup { Append(s, c) : s \in shorter, c \in CustomerKinds }

\* The customers table.
Directories == RowsUpTo(MaxCustomers)

\* limit / offset rows of a result set; the storage rejects a negative
\* limit or offset.
StoreRejects(limit, offset) == limit < 0 \/ offset < 0

Paged(rows, limit, offset) ==
    SubSeq(rows, offset + 1,
           IF offset + limit < Len(rows) THEN offset + limit ELSE Len(rows))

\* The rows getCustomers and getCustomersCount select for a filters object.
FilterMatches(dir, filters) ==
    LET Hit(row) == \/ ~Truthy(Field(filters, "customerType"))
                    \/ row.customerType = Field(filters, "customerType")
    IN SelectSeq(dir, Hit)

\* The rows searchCustomers selects: partial, case-insensitive match of the
\* name and of the email given.
LegacyMatches(dir, criteria) ==
    LET Hit(row) ==
            /\ Truthy(criteria.name)
                  => includes(toLowerCase(row.name), toLowerCase(criteria.name))
            /\ Truthy(criteria.email)
                  => includes(toLowerCase(row.email), toLowerCase(criteria.email))
    IN SelectSeq(dir, Hit)

searchCustomers(dir, criteria, limit, offset) ==
    Paged(LegacyMatches(dir, criteria), limit, offset)

getCustomerStats(dir) == [totalCustomers |-> Len(dir)]

getCustomers(dir, limit, offset, filters) ==
    Paged(FilterMatches(dir, filters), limit, offset)

getCustomersCount(dir, filters) == Len(FilterMatches(dir, filters))

\* ---- the handler ---------------------------------------------------------------

\* req.query.limit and req.query.offset as sent: absent, empty, digits, signed,
\* with trailing text, with leading space, hexadecimal, or no number at all.
QueryNumbers ==
    { Null, <<>>, <<"0">>, <<"1">>, <<"2">>, <<"-","2">>, <<"2","x">>,
      <<" ","3">>, <<"0","x","2">>, <<"a","b">> }

QueryNames == { Null, <<>>, <<"a">> }

QueryEmails == { Null, <<"@">> }

QueryTypes == { Null, <<"R">> }

Queries ==
    [limit : QueryNumbers, offset : QueryNumbers, name : QueryNames,
     email : QueryEmails, customerType : QueryTypes]

\* A request arrives at app.get("/api/customers", ...).
GetArrives ==
    /\ get.pc = "idle"
    /\ \E query \in Queries, dir \in Directories :
          get' = [pc |-> "handler", query |-> query, dir |-> dir]
    /\ UNCHANGED <<quoteVars, listVars, http>>

\* The handler up to its first await: limit, offset and page are computed,
\* the filters object is built and the path is chosen; the legacy path calls
\* searchCustomers, the other one getCustomers.
GetHandler ==
    /\ get.pc = "handler"
    /\ LET limit == OrNumber(parseInt(get.query.limit), DefaultLimit)
           offset == OrNumber(parseInt(get.query.offset), DefaultOffset)
           filters == Filters(get.query)
           call == IF UsesLegacySearch(filters)
                   THEN [fn |-> "searchCustomers",
                         criteria |-> [name |-> Field(filters, "name"),
                                       email |-> Field(filters, "email")]]
                   ELSE [fn |-> "getCustomers", criteria |-> filters]
       IN get' = [pc |-> "customers", query |-> get.query, dir |-> get.dir,
                  limit |-> limit, offset |-> offset,
                  page |-> Page(offset, limit), filters |-> filters,
                  calls |-> <<call>>]
    /\ UNCHANGED <<quoteVars, listVars, http>>

\* The first call resolves; the handler calls getCustomerStats (legacy path) or
\* getCustomersCount(filters).
GetCustomers ==
    /\ get.pc = "customers"
    /\ ~StoreRejects(get.limit, get.offset)
    /\ LET first == get.calls[1]
           customers == IF first.fn = "searchCustomers"
                        THEN searchCustomers(get.dir, first.criteria, get.limit, get.offset)
                        ELSE getCustomers(get.dir, get.limit, get.offset, first.criteria)
           call == IF first.fn = "searchCustomers"
                   THEN [fn |-> "getCustomerStats", criteria |-> <<>>]
                   ELSE [fn |-> "getCustomersCount", criteria |-> get.filters]
       IN get' = [pc |-> "total", query |-> get.query, dir |-> get.dir,
                  limit |-> get.limit, offset |-> get.offset, page |-> get.page,
                  filters |-> get.filters, calls |-> Append(get.calls, call),
                  customers |-> customers]
    /\ UNCHANGED <<quoteVars, listVars, http>>

\* The second call resolves: totalCount, the pagination object and
\* res.json({ customers, pagination }).
GetRespond ==
    /\ get.pc = "total"
    /\ LET second == get.calls[2]
           totalCount == IF second.fn = "getCustomerStats"
                         THEN getCustomerStats(get.dir).totalCustomers
                         ELSE getCustomersCount(get.dir, second.criteria)
           pagination == [page |-> get.page, limit |-> get.limit,
                          total |-> totalCount,
                          pages |-> Pages(totalCount, get.limit)]
       IN get' = [pc |-> "done", query |-> get.query, dir |-> get.dir,
                  calls |-> get.calls,
                  sent |-> <<[status |-> 200, customers |-> get.customers,
                              pagination |-> pagination]>>]
    /\ UNCHANGED <<quoteVars, listVars, http>>

\* catch (error): an awaited storage call rejects;
\* res.status(500).json({ message: "Failed to fetch customers" }).
GetCatch ==
    /\ get.pc \in {"customers", "total"}
    /\ get' = [pc |-> "done", query |-> get.query, dir |-> get.dir,
               calls |-> get.calls,
               sent |-> <<[status |-> 500]>>]
    /\ UNCHANGED <<quoteVars, listVars, http>>

InitGet ==
    /\ quotations = <<>>
    /\ quotationItems = {}
    /\ salesOrders = {}
    /\ customerAcceptances = {}
    /\ purchaseOrders = {}
    /\ pc = [p \in Procs |-> "idle"]
    /\ req = [p \in Procs |-> IdleReq]
    /\ listIn = ListIdle
    /\ listOut = ListIdle
    /\ http = [h \in Procs |-> HttpNew]
    /\ get = GetIdle

NextGet == GetArrives \/ GetHandler \/ GetCustomers \/ GetRespond \/ GetCatch

SpecGet == InitGet /\ [][NextGet]_vars

\* The request was answered with customers and a pagination object.
GetAnswered == get.pc = "done" /\ get.sent[1].status = 200

\* page - 1 is the quotient offset / limit rounded down.
IsFloorPlusOne(page, offset, limit) ==
    IF limit > 0
    THEN (page - 1) * limit <= offset /\ offset < page * limit
    ELSE (page - 1) * limit >= offset /\ offset > page * limit

\* pages is the quotient total / limit rounded up.
IsCeil(pages, total, limit) ==
    IF limit > 0
    THEN (pages - 1) * limit < total /\ total <= pages * limit
    ELSE (pages - 1) * limit > total /\ total >= pages * limit

\* What the response must hold for the limit and offset the request asked for.
PaginationFor(limit, offset) ==
    LET r == get.sent[1]
    IN /\ r.pagination.limit = limit
       /\ limit # 0
       /\ IsFloorPlusOne(r.pagination.page, offset, limit)
       /\ IsCeil(r.pagination.pages, r.pagination.total, limit)
       /\ Len(r.customers) <= limit

LegacyCalls == <<"searchCustomers", "getCustomerStats">>

GeneralCalls == <<"getCustomers", "getCustomersCount">>

CallNames == [i \in 1..Len(get.calls) |-> get.calls[i].fn]

IsPrefix(s, t) == Len(s) <= Len(t) /\ s = SubSeq(t, 1, Len(s))

\* C12: the legacy search path and the general filter path are mutually
\* exclusive.  With a non-empty name or email only searchCustomers (and
\* getCustomerStats) run, and pagination.total is the number of all customers
\* whatever the number of legacy matches; otherwise only getCustomers and
\* getCustomersCount run, both with the filters, and pagination.total is the
\* number of customers matching the filters.
C12_PathsExclusive ==
    get.pc \in {"customers", "total", "done"}
       => LET q == get.query
              legacy == Truthy(q.name) \/ Truthy(q.email)
          IN /\ IsPrefix(CallNames, IF legacy THEN LegacyCalls ELSE GeneralCalls)
             /\ GetAnswered
                   => IF legacy
                      THEN /\ CallNames = LegacyCalls
                           /\ get.calls[1].criteria = [name |-> q.name, email |-> q.email]
                           /\ get.sent[1].pagination.total = Len(get.dir)
                      ELSE /\ CallNames = GeneralCalls
                           /\ \A i \in 1..2 :
                                 /\ DOMAIN get.calls[i].criteria
                                       = {k \in FilterKeys : q[k] # Null}
                                 /\ \A k \in DOMAIN get.calls[i].criteria :
                                       get.calls[i].criteria[k] = q[k]
                           /\ get.sent[1].pagination.total
                                 = Cardinality({i \in 1..Len(get.dir) :
                                      Truthy(q.customerType)
                                         => get.dir[i].customerType = q.customerType})

\* A legacy search by name alone that matches one of three customers and is
\* answered with total 3.
C12_Witness ==
    /\ GetAnswered
    /\ Truthy(get.query.name)
    /\ get.query.email = Null
    /\ Len(LegacyMatches(get.dir, [name |-> get.query.name, email |-> Null])) = 1
    /\ Len(get.sent[1].customers) = 1
    /\ get.sent[1].pagination.total = 3

(***************************************************************************)
(* Properties of SupplierQuoteStorage                                      *)
(***************************************************************************)

StoreUnchanged ==
    /\ quotations' = quotations
    /\ quotationItems' = quotationItems

\* The store after the step lacks quotation id and every line item of id, and
\* is otherwise as before.
RemovedWhole(id) ==
    /\ DOMAIN quotations' = DOMAIN quotations \ {id}
    /\ \A q \in DOMAIN quotations' : quotations'[q] = quotations[q]
    /\ quotationItems' = { it \in quotationItems : it.quotationId # id }

\* C1: delete(id) is all-or-nothing.  Every step of a delete call, a failing
\* one included, leaves the committed store (what any other request reads)
\* either as it was or without the quotation row and without all of its line
\* items; no step removes the line items and keeps the quotation, or the
\* reverse.
C1_DeleteAllOrNothing ==
    [][\A p \in Procs :
          (req[p].op = "delete" /\ pc'[p] # pc[p])
             => (StoreUnchanged \/ RemovedWhole(req[p].id))]_vars

\* A delete failed after its first statement had run, and the quotation and
\* its line item are still there.
C1_Witness ==
    \E p \in Procs :
        /\ req[p].op = "delete"
        /\ pc[p] = "failed"
        /\ req[p].err.at \in {"delQuote", "delCommit"}
        /\ req[p].id \in DOMAIN quotations
        /\ ItemsOf(req[p].id) # {}

AllRefs == salesOrders \cup customerAcceptances \cup purchaseOrders

\* C2: a sales order, customer acceptance or purchase order referencing a
\* quotation blocks its deletion: no dependent record's quotationId points at
\* a quotation that is gone.
C2_ReferencedQuotationKept ==
    \A r \in AllRefs : r.quotationId \in DOMAIN quotations

\* C3: every line item's quotationId is the id of an existing quotation row,
\* under every interleaving of create, update and delete.
C3_NoOrphanItem ==
    \A it \in quotationItems : it.quotationId \in DOMAIN quotations

\* A delete removed the quotation between create's quotation insert and one of
\* its item inserts: that insert was rejected.
C3_Witness ==
    \E p \in Procs :
        /\ req[p].op = "create"
        /\ pc[p] = "failed"
        /\ req[p].err.cause = "ForeignKeyViolation"
        /\ req[p].quote \notin DOMAIN quotations

\* The ids of the line items a create of n items inserts.
ItemIdsOf(quote, n) == { NewItemId(quote, j) : j \in 1..n }

DeleteCommitted(id) ==
    \E o \in Procs : req[o].op = "delete" /\ req[o].id = id /\ pc[o] = "done"

\* C7: a create that returned, with data.items an array of length N, has
\* inserted exactly N line items, each stored with the new quotation's id
\* whatever quotationId it carried; unless a delete of the new id has
\* committed since, getById(newId) is the quotation and getItems(newId) is
\* exactly those N items.
C7_CreateInsertsAllItems ==
    \A p \in Procs :
        (req[p].op = "create" /\ pc[p] = "done" /\ req[p].hasItems)
           => LET N == Len(req[p].items)
                  new == req[p].quote
              IN /\ req[p].k = N
                 /\ \A it \in quotationItems :
                       it.id \in ItemIdsOf(new, N) => it.quotationId = new
                 /\ ~DeleteCommitted(new)
                       => /\ getById(new).kind = "row"
                          /\ getById(new).id = new
                          /\ req[p].ret.kind = "row"
                          /\ req[p].ret.id = new
                          /\ { it.id : it \in getItems(new) } = ItemIdsOf(new, N)
                          /\ Cardinality(getItems(new)) = N

\* A create of MaxItems items, some carrying a quotationId of their own, returned.
C7_Witness ==
    \E p \in Procs :
        /\ req[p].op = "create"
        /\ pc[p] = "done"
        /\ req[p].hasItems
        /\ Len(req[p].items) = MaxItems
        /\ \E i \in 1..MaxItems : req[p].items[i] = CarryingItem
        /\ Cardinality(getItems(req[p].quote)) = MaxItems

\* C8: when an insert of create fails, create throws an error that wraps the
\* store's error, as update's does.
C8_CreateWrapsStoreError ==
    \A p \in Procs :
        (req[p].op = "create" /\ pc[p] = "failed"
            /\ req[p].err.at \in {"createQuote", "createItems"})
           => /\ req[p].err.kind = "wrapped"
              /\ Len(req[p].err.message) = 2
              /\ req[p].err.message[2] = req[p].err.cause

\* C9: create is not atomic.  The step in which an insert of create fails
\* leaves the quotation row and the line items inserted before it in the
\* store, and a failed create takes no later step that would undo them.
C9_CreateNotRolledBack ==
    [][\A p \in Procs :
          /\ (req[p].op = "create" /\ pc[p] = "createItems" /\ pc'[p] = "failed")
                => StoreUnchanged
          /\ (req[p].op = "create" /\ pc[p] = "failed")
                => (pc'[p] = "failed" /\ req'[p] = req[p])]_vars

\* The second of two item inserts failed: the quotation is persisted with one
\* line item instead of two.
C9_Witness ==
    \E p \in Procs :
        /\ req[p].op = "create"
        /\ pc[p] = "failed"
        /\ req[p].err.at = "createItems"
        /\ req[p].err.cause = "StoreError"
        /\ req[p].k >= 1
        /\ req[p].k < Len(req[p].items)
        /\ req[p].quote \in DOMAIN quotations
        /\ Cardinality(ItemsOf(req[p].quote)) = req[p].k

\* C4: hasReferences(id) returns true exactly when one of the three tables
\* has a row whose quotationId is id; it returns only when all three queries
\* have completed, whatever their order.
C4_HasReferencesIffReferenced ==
    \A p \in Procs :
        /\ (req[p].op = "hasReferences" /\ pc[p] = "done")
              => /\ req[p].pending = {}
                 /\ req[p].ret.kind = "bool"
                 /\ req[p].ret.flag = (\E r \in AllRefs : r.quotationId = req[p].id)
        /\ (req[p].op = "hasReferences" /\ req[p].pending # {})
              => req[p].ret.kind = "none"

\* hasReferences returned true on a purchase order alone.
C4_Witness ==
    \E p \in Procs :
        /\ req[p].op = "hasReferences"
        /\ pc[p] = "done"
        /\ req[p].ret.flag
        /\ salesOrders = {}
        /\ customerAcceptances = {}
        /\ purchaseOrders # {}

(***************************************************************************)
(* Properties of SupplierQuoteStorage.list                                 *)
(***************************************************************************)

NotesMatch(notes) == notes # Null /\ notes # <<>> /\ SupplierMatch(notes) # <<>>

\* C5: every row of list has a supplierName that is not null, whatever the
\* notes and the supplier rows hold (null and empty names included), and it is
\* "Unknown Supplier" when nothing resolves a supplier.
C5_SupplierNameNeverNull ==
    listOut # ListIdle
       => /\ listOut.supplierName # Null
          /\ (listIn.version = "notes" /\ ~NotesMatch(listIn.notes))
                => listOut.supplierName = UnknownSupplier
          /\ (listIn.version = "join" /\ listIn.joined = <<>>)
                => listOut.supplierName = UnknownSupplier

\* N of the claim: the first comma-separated name of the match, trimmed.
FirstName(notes) == trim(split(SupplierMatch(notes)[1])[1])

\* A supplier row whose name contains N or is contained in N, ignoring case.
NameRelated(row, N) ==
    /\ row.name # Null
    /\ \/ includes(toLowerCase(row.name), toLowerCase(N))
       \/ includes(toLowerCase(N), toLowerCase(row.name))

\* C6: in the note-derived list, for notes matching `suppliers?: <names>` with
\* N the first name trimmed: when no supplier row's name contains N or is
\* contained in N (ignoring case) the row has supplierName = N and
\* supplier.id = null; when such a row exists, supplier.id and supplierName
\* are that row's id and name.
C6_NoteDerivedResolution ==
    (listOut # ListIdle /\ listIn.version = "notes" /\ NotesMatch(listIn.notes))
       => LET N == FirstName(listIn.notes)
              rows == { listIn.suppliers[i] : i \in 1..Len(listIn.suppliers) }
          IN IF \E r \in rows : NameRelated(r, N)
             THEN \E r \in rows :
                      /\ NameRelated(r, N)
                      /\ ~listOut.supplier.isNull
                      /\ listOut.supplier.id = r.id
                      /\ listOut.supplierName = r.name
             ELSE /\ listOut.supplierName = N
                  /\ ~listOut.supplier.isNull
                  /\ listOut.supplier.id = NoId

====
